---- MODULE Spec2Model ----
(***************************************************************************)
(* Double-entry ledger (Next.js API routes over Prisma / PostgreSQL).      *)
(*                                                                         *)
(* The ledger is two tables, Account and Entry.  POST /api/account creates *)
(* an account; POST /api/transaction turns every ledger entry of the       *)
(* request into two store operations (create the Entry row, adjust the     *)
(* account's balance) and hands the flat list to prisma.$transaction,      *)
(* which runs them in order inside one database transaction.               *)
(***************************************************************************)
EXTENDS Integers, Sequences, FiniteSets, TLC

(***************************************************************************)
(* Bounds of the model.                                                    *)
(***************************************************************************)
MaxAccountId == 2   \* account ids are 1..MaxAccountId
MaxAmount    == 2   \* request amounts are 0..MaxAmount
MaxTxId      == 1   \* request transactionIds are 1..MaxTxId
MaxBatch     == 2   \* a request carries at most MaxBatch ledger entries
MaxEntryId   == 2   \* the Entry id sequence is used up to MaxEntryId
MaxClients   == 2   \* concurrent requests are 1..MaxClients
MaxMixedTxId == 2   \* transactionIds of SpecTx's requests are 1..MaxMixedTxId
MaxRePostEntryId == 4   \* SpecRePost uses the Entry id sequence up to this id

(***************************************************************************)
(* Schema: enums and column types.                                         *)
(***************************************************************************)
AccountType == {"ASSET", "LIABILITY"}
DebitCredit == {"DEBIT", "CREDIT"}

\* Prisma Int is a PostgreSQL integer (32 bit); out of range is an error.
IntMax == 2147483647
IntMin == -IntMax - 1

AccountIds == 1..MaxAccountId
Amounts    == 0..MaxAmount
TxIds      == 1..MaxTxId
Clients    == 1..MaxClients

\* What a request may put in a field typed AccountType: TypeScript types are
\* erased at run time, so any string (here "OTHER") or nothing at all
\* ("undefined") can arrive.
RequestTypes == AccountType \cup {"OTHER"}

\* An optional id field of a request: <<>> when absent.
OptionalIds == {<<>>} \cup {<<id>> : id \in AccountIds}

\* An optional balance field of a request: <<>> when absent.
OptionalBalances == {<<>>, <<MaxAmount>>}

\* A new row that starts with a balance other than the column's default.
NewAccountWithBalance(accountType) ==
    [present |-> TRUE, accountType |-> accountType, balance |-> MaxAmount]

\* A row of Account; present = FALSE stands for "no row with this id".
NoAccount == [present |-> FALSE, accountType |-> "ASSET", balance |-> 0]
NewAccount(accountType) ==
    [present |-> TRUE, accountType |-> accountType, balance |-> 0]

\* interface LedgerEntry (name carries no behaviour and is left out)
LedgerEntry ==
    [transactionId : TxIds, amount : Amounts, accountId : AccountIds,
     debitCredit : DebitCredit, accountType : RequestTypes]

\* The sequences of exactly n elements of S.
RECURSIVE SeqsOf(_, _)
SeqsOf(S, n) ==
    IF n = 0 THEN {<<>>}
    ELSE {Append(s, e) : s \in SeqsOf(S, n - 1), e \in S}

\* The ledgerEntries arrays of n entries.
Batches(n) == SeqsOf(LedgerEntry, n)

VARIABLES
    accounts,    \* table Account: id -> row
    entries,     \* table Entry: committed rows in insertion order
    entrySeq,    \* next value of the Entry id sequence
    accountSeq,  \* next value of the Account id sequence
    req,         \* the request handled last
    res,         \* the response to it
    tx,          \* the database transactions of concurrent postings, by client
    rd           \* a concurrent GET /api/account/:id and what it has read

vars == <<accounts, entries, entrySeq, accountSeq, req, res, tx, rd>>

(***************************************************************************)
(* Balance Direction Resolver.                                             *)
(***************************************************************************)
\* The value `undefined`: Prisma leaves a field set to undefined untouched.
Undefined == [op |-> "undefined", by |-> 0]

\* A resolver with the Liability row inverted.
getAccountDirectionInverted(accountType, debitCredit, amount) ==
    IF debitCredit = "DEBIT"
    THEN [op |-> "increment", by |-> amount]
    ELSE [op |-> "decrement", by |-> amount]

getAccountDirection(accountType, debitCredit, amount) ==
    IF accountType = "ASSET"
    THEN IF debitCredit = "DEBIT"
         THEN [op |-> "increment", by |-> amount]
         ELSE [op |-> "decrement", by |-> amount]
    ELSE IF accountType = "LIABILITY"
    THEN IF debitCredit = "CREDIT"
         THEN [op |-> "increment", by |-> amount]
         ELSE [op |-> "decrement", by |-> amount]
    ELSE Undefined

\* The change of balance an update operand stands for.
SignedDelta(operand) ==
    IF operand.op = "increment" THEN operand.by
    ELSE IF operand.op = "decrement" THEN -operand.by
    ELSE 0

(***************************************************************************)
(* Transaction Poster: building the operations.                            *)
(***************************************************************************)
\* Operations that create the entry and leave the balance alone.
createEntryOnly(entry) ==
    << [kind |-> "create",
        data |-> [transactionId |-> entry.transactionId,
                  debitCredit   |-> entry.debitCredit,
                  amount        |-> entry.amount,
                  accountId     |-> entry.accountId]] >>

createEntryTransactions(entry) ==
    << [kind |-> "create",
        data |-> [transactionId |-> entry.transactionId,
                  debitCredit   |-> entry.debitCredit,
                  amount        |-> entry.amount,
                  accountId     |-> entry.accountId]],
       [kind |-> "update",
        where |-> entry.accountId,
        balance |-> getAccountDirection(entry.accountType, entry.debitCredit,
                                        entry.amount)] >>

RECURSIVE FlatMap(_)
FlatMap(ledgerEntries) ==
    IF ledgerEntries = <<>> THEN <<>>
    ELSE createEntryTransactions(Head(ledgerEntries)) \o FlatMap(Tail(ledgerEntries))

(***************************************************************************)
(* Ledger Store: one database transaction.                                 *)
(***************************************************************************)
\* The part of the database a posting works on.
Db == [accounts |-> accounts, entries |-> entries, entrySeq |-> entrySeq]

\* A create that writes over the latest row of the table.
EntryCreateReplacing(db, data) ==
    LET row == [id            |-> db.entrySeq,
                transactionId |-> data.transactionId,
                debitCredit   |-> data.debitCredit,
                amount        |-> data.amount,
                accountId     |-> data.accountId]
        used == [db EXCEPT !.entrySeq = @ + 1]
    IN  IF db.accounts[data.accountId].present
        THEN [ok |-> TRUE, error |-> "",
              db |-> [used EXCEPT !.entries =
                        IF @ = <<>> THEN <<row>> ELSE [@ EXCEPT ![Len(@)] = row]]]
        ELSE [ok |-> FALSE, error |-> "P2003", db |-> used]

\* prisma.entry.create: the id comes from the sequence (consumed even when the
\* insert fails); the foreign key Entry.accountId -> Account.id must hold.
EntryCreate(db, data) ==
    LET row == [id            |-> db.entrySeq,
                transactionId |-> data.transactionId,
                debitCredit   |-> data.debitCredit,
                amount        |-> data.amount,
                accountId     |-> data.accountId]
        used == [db EXCEPT !.entrySeq = @ + 1]
    IN  IF db.accounts[data.accountId].present
        THEN [ok |-> TRUE, error |-> "", db |-> [used EXCEPT !.entries = Append(@, row)]]
        ELSE [ok |-> FALSE, error |-> "P2003", db |-> used]

\* An update that stores the operand as the balance instead of applying it to
\* the row's current balance.
AccountUpdateAssigning(db, id, operand) ==
    LET new == SignedDelta(operand)
    IN  IF ~db.accounts[id].present
        THEN [ok |-> FALSE, error |-> "P2025", db |-> db]
        ELSE [ok |-> TRUE, error |-> "",
              db |-> [db EXCEPT !.accounts[id].balance = new]]

\* prisma.account.update: the row must exist; increment / decrement are
\* applied by the database to the row's current balance.
AccountUpdate(db, id, operand) ==
    LET old == db.accounts[id].balance
        new == old + SignedDelta(operand)
    IN  IF ~db.accounts[id].present
        THEN [ok |-> FALSE, error |-> "P2025", db |-> db]
        ELSE IF new > IntMax \/ new < IntMin
        THEN [ok |-> FALSE, error |-> "P2020", db |-> db]
        ELSE [ok |-> TRUE, error |-> "",
              db |-> [db EXCEPT !.accounts[id].balance = new]]

ApplyOperation(db, operation) ==
    IF operation.kind = "create"
    THEN EntryCreate(db, operation.data)
    ELSE AccountUpdate(db, operation.where, operation.balance)

\* A run that carries on after a failed operation and reports success.
RECURSIVE RunOperationsPastFailures(_, _)
RunOperationsPastFailures(db, operations) ==
    IF operations = <<>> THEN [ok |-> TRUE, error |-> "", db |-> db]
    ELSE RunOperationsPastFailures(ApplyOperation(db, Head(operations)).db,
                                   Tail(operations))

\* The operations run in order; the first failure stops the run.
RECURSIVE RunOperations(_, _)
RunOperations(db, operations) ==
    IF operations = <<>> THEN [ok |-> TRUE, error |-> "", db |-> db]
    ELSE LET first == ApplyOperation(db, Head(operations))
         IN  IF first.ok THEN RunOperations(first.db, Tail(operations))
             ELSE first

\* A failed run whose effects stay.
NoRollback(before, after) == after

\* What a failed run leaves behind: nothing but the consumed sequence values.
Rollback(before, after) == [before EXCEPT !.entrySeq = after.entrySeq]

\* prisma.$transaction(operations)
Transaction(db, operations) ==
    LET run == RunOperations(db, operations)
    IN  IF run.ok THEN run
        ELSE [run EXCEPT !.db = Rollback(db, run.db)]

\* No transaction: the client has no posting in flight.
NoTx == [pc |-> "none", ledgerEntries |-> <<>>, done |-> 0, created |-> <<>>,
         written |-> [id \in AccountIds |-> [dirty |-> FALSE, balance |-> 0]],
         status |-> 0, error |-> ""]

\* No read in flight.
NoRead == [pc |-> "none", id |-> 0, account |-> NoAccount, entries |-> <<>>]

(***************************************************************************)
(* Handlers.                                                               *)
(***************************************************************************)
\* A create that replaces the row already stored under the id.
AccountCreateReplacing(table, id, accountType) ==
    [ok |-> TRUE, error |-> "",
     accounts |-> [table EXCEPT ![id] = NewAccount(accountType)]]

\* prisma.account.create: Account.id is the primary key, the other columns
\* take the given type and the schema's defaults.
AccountCreate(table, id, accountType) ==
    IF table[id].present
    THEN [ok |-> FALSE, error |-> "P2002", accounts |-> table]
    ELSE [ok |-> TRUE, error |-> "",
          accounts |-> [table EXCEPT ![id] = NewAccount(accountType)]]

\* POST /api/account.  `id` is <<>> when the body has no id (the column's
\* autoincrement default applies) and <<i>> when it has; `accountType` is
\* "undefined" when the body has none (the column's default ASSET applies);
\* `balance` is a balance field of the body, which the handler never reads.
CreateAccount(id, accountType, balance) ==
    LET newId   == IF id = <<>> THEN accountSeq ELSE id[1]
        type    == IF accountType = "undefined" THEN "ASSET" ELSE accountType
        outcome == AccountCreate(accounts, newId, type)
    IN  /\ id = <<>> => accountSeq <= MaxAccountId
        /\ req' = [op |-> "CreateAccount", balance |-> balance]
        /\ IF type \notin AccountType
           THEN /\ res' = [status |-> 500, error |-> "validation"]
                /\ UNCHANGED <<accounts, accountSeq>>
           ELSE /\ accountSeq' = IF id = <<>> THEN accountSeq + 1 ELSE accountSeq
                /\ res' = [status |-> IF outcome.ok THEN 200 ELSE 500,
                           error |-> outcome.error]
                /\ accounts' = outcome.accounts
        /\ UNCHANGED <<entries, entrySeq, tx, rd>>

\* prisma.entry.findMany: the rows whose fields have the values that `where`
\* names, in table order; all rows when it names none.
NoFilter == [field \in {} |-> 0]

EntryFindMany(rows, where) ==
    LET Matches(row) == \A field \in DOMAIN where : row[field] = where[field]
    IN  SelectSeq(rows, Matches)

\* The first query of prisma.account.findUnique: the row with the id.
AccountFindUnique(table, id) == table[id]

\* The second query of findUnique's include: the entries of the account.
IncludeEntries(rows, id) == EntryFindMany(rows, [accountId |-> id])

\* What res.json sends for findUnique: null when there is no such account.
AccountJson(account, rows) ==
    IF account.present
    THEN [null |-> FALSE, accountType |-> account.accountType,
          balance |-> account.balance, entries |-> rows]
    ELSE [null |-> TRUE]

\* A handler that only reads: the answer is computed from the tables, which
\* stay as they are.
Read(request, body) ==
    /\ req' = request
    /\ res' = [status |-> 200, error |-> "", body |-> body]
    /\ UNCHANGED <<accounts, entries, entrySeq, accountSeq, tx, rd>>

\* GET /api/account
ListAccounts ==
    Read([op |-> "ListAccounts"],
         [id \in {i \in AccountIds : accounts[i].present} |-> accounts[id]])

\* GET /api/account/:id, served while no posting is in flight.
GetAccountWithEntries(id) ==
    Read([op |-> "GetAccountWithEntries", id |-> id],
         AccountJson(AccountFindUnique(accounts, id), IncludeEntries(entries, id)))

\* GET /api/transaction
ListEntries == Read([op |-> "ListEntries"], EntryFindMany(entries, NoFilter))

\* GET /api/transaction/:id
ListEntriesByTransaction(transactionId) ==
    Read([op |-> "ListEntriesByTransaction", id |-> transactionId],
         EntryFindMany(entries, [transactionId |-> transactionId]))

\* GET /api/entry/:id
GetEntry(entryId) ==
    Read([op |-> "GetEntry", id |-> entryId],
         EntryFindMany(entries, [id |-> entryId]))

\* Any other method on any of the routes: the switch's default branch.
MethodNotImplemented ==
    /\ req' = [op |-> "MethodNotImplemented"]
    /\ res' = [status |-> 501, error |-> "Method Not Implemented"]
    /\ UNCHANGED <<accounts, entries, entrySeq, accountSeq, tx, rd>>

\* POST /api/transaction
PostTransaction(hasEntries, batch) ==
    LET ledgerEntries == IF hasEntries THEN batch ELSE <<>>
        outcome == Transaction(Db, FlatMap(ledgerEntries))
    IN  /\ req' = [op |-> "PostTransaction", hasEntries |-> hasEntries,
                   ledgerEntries |-> ledgerEntries]
        /\ res' = IF outcome.ok THEN [status |-> 201, error |-> ""]
                  ELSE [status |-> 500, error |-> outcome.error]
        /\ accounts' = outcome.db.accounts
        /\ entries' = outcome.db.entries
        /\ entrySeq' = outcome.db.entrySeq
        /\ UNCHANGED <<accountSeq, tx, rd>>

\* POST /api/transaction with a ledgerEntries array of n entries.
PostBatchOf(n) ==
    /\ entrySeq + n - 1 <= MaxEntryId
    /\ \E batch \in Batches(n) : PostTransaction(TRUE, batch)

Init ==
    /\ accounts = [id \in AccountIds |-> NoAccount]
    /\ entries = <<>>
    /\ entrySeq = 1
    /\ accountSeq = 1
    /\ req = [op |-> "none"]
    /\ res = [status |-> 0, error |-> ""]
    /\ tx = [c \in Clients |-> NoTx]
    /\ rd = NoRead

Next ==
    \/ \E id \in OptionalIds, accountType \in RequestTypes \cup {"undefined"},
          balance \in OptionalBalances :
          CreateAccount(id, accountType, balance)
    \/ \E n \in 0..MaxBatch : PostBatchOf(n)
    \/ PostTransaction(FALSE, <<>>)
    \/ ListAccounts
    \/ \E id \in AccountIds : GetAccountWithEntries(id)
    \/ ListEntries
    \/ \E transactionId \in TxIds : ListEntriesByTransaction(transactionId)
    \/ \E entryId \in 1..MaxEntryId : GetEntry(entryId)
    \/ MethodNotImplemented

Spec == Init /\ [][Next]_vars

(***************************************************************************)
(* Postings whose entries may name different transactions.  The drafts are  *)
(* well formed (a positive amount, an account type of the enum); the        *)
(* transactionId of each draft is free.                                     *)
(***************************************************************************)
MixedTxIds == 1..MaxMixedTxId

MixedLedgerEntry ==
    [transactionId : MixedTxIds, amount : Amounts \ {0}, accountId : AccountIds,
     debitCredit : DebitCredit, accountType : AccountType]

\* POST /api/transaction with a body of n such drafts.
PostMixedBatchOf(n) ==
    /\ entrySeq + n - 1 <= MaxEntryId
    /\ \E batch \in SeqsOf(MixedLedgerEntry, n) : PostTransaction(TRUE, batch)

NextTx ==
    \/ \E id \in OptionalIds, accountType \in AccountType :
          CreateAccount(id, accountType, <<>>)
    \/ \E n \in 1..MaxBatch : PostMixedBatchOf(n)

SpecTx == Init /\ [][NextTx]_vars

(***************************************************************************)
(* Postings repeated on a ledger with room for two batches of two entries.  *)
(* The accounts were created beforehand, some of them perhaps not; each     *)
(* posting has two entries of one transactionId, on accounts a and b, each  *)
(* naming the type its account has.                                         *)
(***************************************************************************)
RePostBatch(transactionId, a, b, first, second) ==
    << [transactionId |-> transactionId, amount |-> transactionId, accountId |-> a,
        debitCredit |-> first, accountType |-> accounts[a].accountType],
       [transactionId |-> transactionId, amount |-> transactionId, accountId |-> b,
        debitCredit |-> second, accountType |-> accounts[b].accountType] >>

\* POST /api/transaction with such a body.
PostPair ==
    /\ entrySeq + 1 <= MaxRePostEntryId
    /\ \E transactionId \in MixedTxIds, a \in AccountIds, b \in AccountIds,
          first \in DebitCredit, second \in DebitCredit :
          PostTransaction(TRUE, RePostBatch(transactionId, a, b, first, second))

InitRePost ==
    /\ accounts \in [AccountIds -> {NoAccount} \cup {NewAccount(t) : t \in AccountType}]
    /\ entries = <<>>
    /\ entrySeq = 1
    /\ accountSeq = MaxAccountId + 1
    /\ req = [op |-> "none"]
    /\ res = [status |-> 0, error |-> ""]
    /\ tx = [c \in Clients |-> NoTx]
    /\ rd = NoRead

NextRePost == PostPair

SpecRePost == InitRePost /\ [][NextRePost]_vars

(***************************************************************************)
(* Concurrent postings.                                                    *)
(*                                                                         *)
(* Each request runs handlePOST on its own; the handlers meet only in the  *)
(* database.  prisma.$transaction sends the operations one statement at a  *)
(* time inside BEGIN .. COMMIT, at PostgreSQL's default isolation level    *)
(* (READ COMMITTED): rows a transaction inserted or updated are its own    *)
(* until it commits, an UPDATE takes the row's lock until the transaction  *)
(* ends, and an UPDATE of a row locked by another transaction waits and    *)
(* then works on the row as committed.  Two transactions waiting for each  *)
(* other are a deadlock, which the database ends by failing one of them.   *)
(***************************************************************************)
\* A posting of client c with two entries of amount c: a `first` entry on
\* account a and a `second` entry on account b, each carrying the account's
\* own type.  With opposite directions it is a double entry.
Opposite(debitCredit) == IF debitCredit = "DEBIT" THEN "CREDIT" ELSE "DEBIT"

Posting(c, a, b, first, second, types) ==
    << [transactionId |-> c, amount |-> c, accountId |-> a,
        debitCredit |-> first, accountType |-> types[a]],
       [transactionId |-> c, amount |-> c, accountId |-> b,
        debitCredit |-> second, accountType |-> types[b]] >>

\* No lock at all: an UPDATE never waits.
NoRowLock(c, id) == FALSE

\* The row of account id is locked by a transaction other than c's.
RowLockedByOther(c, id) ==
    \E d \in Clients \ {c} : tx[d].pc = "running" /\ tx[d].written[id].dirty

\* A view without the transaction's own row versions.
CommittedView(c) ==
    [accounts |-> accounts, entries |-> tx[c].created, entrySeq |-> entrySeq]

\* The database as the transaction of client c sees it: the committed
\* accounts overlaid with its own uncommitted row versions, and the rows it
\* has inserted so far.
View(c) ==
    [accounts |-> [id \in AccountIds |->
                     IF tx[c].written[id].dirty
                     THEN [accounts[id] EXCEPT !.balance = tx[c].written[id].balance]
                     ELSE accounts[id]],
     entries  |-> tx[c].created,
     entrySeq |-> entrySeq]

Operations(c) == FlatMap(tx[c].ledgerEntries)
NextOperation(c) == Operations(c)[tx[c].done + 1]

\* The statement client c would run next has to wait for a row lock.
Waiting(c) ==
    /\ tx[c].pc = "running"
    /\ tx[c].done < Len(Operations(c))
    /\ NextOperation(c).kind = "update"
    /\ RowLockedByOther(c, NextOperation(c).where)

\* Client c waits for a lock that client d holds.
WaitsFor(c, d) ==
    /\ c # d
    /\ Waiting(c)
    /\ tx[d].pc = "running"
    /\ tx[d].written[NextOperation(c).where].dirty

\* The clients that c waits for, directly or through others.
RECURSIVE WaitClosure(_, _)
WaitClosure(S, n) ==
    IF n = 0 THEN S
    ELSE WaitClosure(S \cup {d \in Clients : \E e \in S : WaitsFor(e, d)}, n - 1)
Deadlocked(c) ==
    c \in WaitClosure({d \in Clients : WaitsFor(c, d)}, MaxClients)

\* ROLLBACK: the transaction's rows and row versions are dropped and its
\* locks released; the handler's request fails.
Aborted(t, error) ==
    [t EXCEPT !.pc = "aborted", !.created = <<>>,
              !.written = [id \in AccountIds |-> [dirty |-> FALSE, balance |-> 0]],
              !.status = 500, !.error = error]

\* One statement of client c's transaction.
Statement(c) ==
    /\ tx[c].pc = "running"
    /\ tx[c].done < Len(Operations(c))
    /\ ~Waiting(c)
    /\ LET operation == NextOperation(c)
           outcome   == ApplyOperation(View(c), operation)
       IN  /\ entrySeq' = outcome.db.entrySeq
           /\ IF ~outcome.ok
              THEN tx' = [tx EXCEPT ![c] = Aborted(@, outcome.error)]
              ELSE IF operation.kind = "create"
              THEN tx' = [tx EXCEPT ![c].done = @ + 1,
                                    ![c].created = outcome.db.entries]
              ELSE tx' = [tx EXCEPT ![c].done = @ + 1,
                                    ![c].written[operation.where] =
                                        [dirty |-> TRUE,
                                         balance |-> outcome.db.accounts[operation.where].balance]]
    /\ UNCHANGED <<accounts, entries, accountSeq, req, res, rd>>

\* COMMIT: the transaction's rows and row versions become the committed ones
\* and its locks are released; the handler answers 201.
Commit(c) ==
    /\ tx[c].pc = "running"
    /\ tx[c].done = Len(Operations(c))
    /\ entries' = entries \o tx[c].created
    /\ accounts' = View(c).accounts
    /\ tx' = [tx EXCEPT ![c].pc = "committed", ![c].status = 201,
                        ![c].written = [id \in AccountIds |-> [dirty |-> FALSE, balance |-> 0]]]
    /\ UNCHANGED <<entrySeq, accountSeq, req, res, rd>>

\* The database's deadlock detector fails the waiting transaction of c.
DeadlockAbort(c) ==
    /\ Deadlocked(c)
    /\ tx' = [tx EXCEPT ![c] = Aborted(@, "P2034")]
    /\ UNCHANGED <<accounts, entries, entrySeq, accountSeq, req, res, rd>>

\* Accounts exist with balance 0 and every client has sent one posting.
InitConc ==
    \E types \in [AccountIds -> AccountType] :
        /\ accounts = [id \in AccountIds |-> NewAccount(types[id])]
        /\ entries = <<>>
        /\ entrySeq = 1
        /\ accountSeq = MaxAccountId + 1
        /\ req = [op |-> "none"]
        /\ res = [status |-> 0, error |-> ""]
        /\ rd = NoRead
        /\ tx \in [Clients -> {[NoTx EXCEPT !.pc = "running",
                                            !.ledgerEntries = Posting(c, a, b, first, second, types)] :
                                 c \in Clients, a \in AccountIds, b \in AccountIds,
                                 first \in DebitCredit, second \in DebitCredit}]
        /\ \A c \in Clients : tx[c].ledgerEntries[1].transactionId = c

NextConc ==
    \/ \E c \in Clients : Statement(c)
    \/ \E c \in Clients : Commit(c)
    \/ \E c \in Clients : DeadlockAbort(c)

SpecConc == InitConc /\ [][NextConc]_vars

\* The database runs every statement that does not have to wait, commits a
\* transaction whose statements are done, and its deadlock detector fires
\* while a deadlock lasts.
Fairness ==
    \A c \in Clients :
        /\ WF_vars(Statement(c))
        /\ WF_vars(Commit(c))
        /\ WF_vars(DeadlockAbort(c))

\* The postings are double entries (the second entry's direction is the
\* opposite of the first's) on accounts that are in turn Asset and Liability.
InitDoubleEntry ==
    /\ InitConc
    /\ \A id \in AccountIds :
          accounts[id].accountType = IF id % 2 = 1 THEN "ASSET" ELSE "LIABILITY"
    /\ \A c \in Clients :
          tx[c].ledgerEntries[2].debitCredit =
              Opposite(tx[c].ledgerEntries[1].debitCredit)

SpecConcFair == InitDoubleEntry /\ [][NextConc]_vars /\ Fairness

(***************************************************************************)
(* Reads concurrent with a posting.                                        *)
(*                                                                         *)
(* A read is served by its own handler while the posting's transaction is  *)
(* open.  Each query is one statement and sees what is committed when it   *)
(* runs.  findUnique with include is two statements, one for the account   *)
(* row and one for its entries, and the posting may commit between them;   *)
(* findMany is a single statement.                                         *)
(***************************************************************************)
\* GET /api/account/:id, first query: the account row.
ReadAccountRow(id) ==
    /\ rd.pc = "none"
    /\ rd' = [pc |-> "row", id |-> id,
              account |-> AccountFindUnique(accounts, id), entries |-> <<>>]
    /\ UNCHANGED <<accounts, entries, entrySeq, accountSeq, req, res, tx>>

\* GET /api/account/:id, second query and the response: the entries of the
\* account found by the first.
ReadAccountEntries ==
    /\ rd.pc = "row"
    /\ rd' = [rd EXCEPT !.pc = "account",
                        !.entries = IF rd.account.present
                                    THEN IncludeEntries(entries, rd.id) ELSE <<>>]
    /\ UNCHANGED <<accounts, entries, entrySeq, accountSeq, req, res, tx>>

\* GET /api/transaction: its one query and the response.
ReadEntries ==
    /\ rd.pc = "none"
    /\ rd' = [NoRead EXCEPT !.pc = "entries",
                            !.entries = EntryFindMany(entries, NoFilter)]
    /\ UNCHANGED <<accounts, entries, entrySeq, accountSeq, req, res, tx>>

\* Accounts exist with balance 0, client 1 has sent a posting and no read
\* has started.
InitRead ==
    \E types \in [AccountIds -> AccountType] :
        /\ accounts = [id \in AccountIds |-> NewAccount(types[id])]
        /\ entries = <<>>
        /\ entrySeq = 1
        /\ accountSeq = MaxAccountId + 1
        /\ req = [op |-> "none"]
        /\ res = [status |-> 0, error |-> ""]
        /\ rd = NoRead
        /\ \E a \in AccountIds, b \in AccountIds,
              first \in DebitCredit, second \in DebitCredit :
              tx = [c \in Clients |->
                      IF c = 1
                      THEN [NoTx EXCEPT !.pc = "running",
                                        !.ledgerEntries =
                                            Posting(c, a, b, first, second, types)]
                      ELSE NoTx]

NextRead ==
    \/ \E c \in Clients : Statement(c)
    \/ \E c \in Clients : Commit(c)
    \/ \E id \in AccountIds : ReadAccountRow(id)
    \/ ReadAccountEntries
    \/ ReadEntries

SpecRead == InitRead /\ [][NextRead]_vars

(***************************************************************************)
(* Vocabulary of the properties.                                           *)
(***************************************************************************)
\* The normal-balance table: Asset is increased by Debit, Liability by Credit.
TableDelta(accountType, debitCredit, amount) ==
    IF accountType = "ASSET"
    THEN (IF debitCredit = "DEBIT" THEN amount ELSE -amount)
    ELSE (IF debitCredit = "CREDIT" THEN amount ELSE -amount)

Indices(s) == 1..Len(s)

RECURSIVE SumOver(_, _)
\* Sum of f[i] over the finite set of indices I.
SumOver(f, I) ==
    IF I = {} THEN 0
    ELSE LET i == CHOOSE j \in I : TRUE IN f[i] + SumOver(f, I \ {i})

DebitSum(batch) ==
    SumOver([i \in Indices(batch) |->
               IF batch[i].debitCredit = "DEBIT" THEN batch[i].amount ELSE 0],
            Indices(batch))
CreditSum(batch) ==
    SumOver([i \in Indices(batch) |->
               IF batch[i].debitCredit = "CREDIT" THEN batch[i].amount ELSE 0],
            Indices(batch))

\* Net change of account id's balance that the operations of a batch carry.
BatchDelta(batch, id) ==
    SumOver([i \in Indices(batch) |->
               IF batch[i].accountId = id
               THEN SignedDelta(getAccountDirection(batch[i].accountType,
                                    batch[i].debitCredit, batch[i].amount))
               ELSE 0],
            Indices(batch))

\* Net change of account id's balance by the table, with the type taken from
\* `typeOf` (a function from entries to account types).
TableBatchDelta(batch, id, typeOf(_)) ==
    SumOver([i \in Indices(batch) |->
               IF batch[i].accountId = id
               THEN TableDelta(typeOf(batch[i]), batch[i].debitCredit, batch[i].amount)
               ELSE 0],
            Indices(batch))

StoredType(entry) == accounts[entry.accountId].accountType
SuppliedType(entry) == entry.accountType

\* The step just taken handled POST /api/transaction for `req'`.
Posted == req'.op = "PostTransaction"
Accepted == Posted /\ res'.status = 201
\* The state is the one right after a posting.
AfterPost == req.op = "PostTransaction"

LedgerUnchanged == entries' = entries /\ accounts' = accounts

\* The rows of the batch were appended to Entry, one per draft, in order.
EntriesCreated(batch) ==
    /\ Len(entries') = Len(entries) + Len(batch)
    /\ SubSeq(entries', 1, Len(entries)) = entries
    /\ \A i \in Indices(batch) :
         LET row == entries'[Len(entries) + i]
         IN  /\ row.transactionId = batch[i].transactionId
             /\ row.debitCredit = batch[i].debitCredit
             /\ row.amount = batch[i].amount
             /\ row.accountId = batch[i].accountId

References(batch, id) == \E i \in Indices(batch) : batch[i].accountId = id
ReferencesUnknown(batch) ==
    \E i \in Indices(batch) : ~accounts[batch[i].accountId].present

(***************************************************************************)
(* C1: a posting is all-or-nothing.  After POST /api/transaction either    *)
(* one Entry row per draft exists and every account's balance has moved by *)
(* the net of the batch's adjustments for it, or no row was created and no *)
(* balance moved (the response is then an error).                          *)
(***************************************************************************)
C1_AllOrNothing ==
    [][Posted =>
         \/ /\ res'.status = 201
            /\ EntriesCreated(req'.ledgerEntries)
            /\ \A id \in AccountIds :
                 /\ accounts'[id].present = accounts[id].present
                 /\ accounts'[id].accountType = accounts[id].accountType
                 /\ accounts'[id].balance =
                      accounts[id].balance + BatchDelta(req'.ledgerEntries, id)
         \/ /\ res'.status = 500
            /\ LedgerUnchanged]_vars

\* A two-entry batch failed at its second entry after the first entry's row
\* and balance adjustment had been applied inside the transaction.
C1_Witness ==
    /\ AfterPost
    /\ res.status = 500
    /\ Len(req.ledgerEntries) = 2
    /\ accounts[req.ledgerEntries[1].accountId].present
    /\ req.ledgerEntries[1].amount > 0
    /\ req.ledgerEntries[1].accountType \in AccountType
    /\ ~accounts[req.ledgerEntries[2].accountId].present

(***************************************************************************)
(* C2: in every reachable state each account's balance is the sum, over    *)
(* the committed entries on that account, of the table's signed amount for *)
(* the account's stored type.                                              *)
(***************************************************************************)
C2_BalanceIsSumOfEntries ==
    \A id \in AccountIds :
        accounts[id].present =>
            accounts[id].balance = TableBatchDelta(entries, id, StoredType)

(***************************************************************************)
(* C3: a batch whose Debit amounts and Credit amounts sum differently is   *)
(* rejected and changes nothing; an accepted batch is balanced.            *)
(***************************************************************************)
C3_UnbalancedRejected ==
    [][(Posted /\ DebitSum(req'.ledgerEntries) # CreditSum(req'.ledgerEntries))
         => (res'.status # 201 /\ LedgerUnchanged)]_vars

(***************************************************************************)
(* C4: the balance change of an accepted posting is the table applied to   *)
(* the stored type of each target account, whatever accountType the        *)
(* request carries.                                                        *)
(***************************************************************************)
C4_DeltaFromStoredType ==
    [][Accepted =>
         \A id \in AccountIds :
             accounts'[id].balance =
                 accounts[id].balance
                   + TableBatchDelta(req'.ledgerEntries, id, StoredType)]_vars

(***************************************************************************)
(* C5: no lost update.  Once the concurrent postings have all ended, every *)
(* account's balance is its initial balance (0) plus the signed deltas of  *)
(* the postings that committed, under every interleaving of their          *)
(* statements.                                                             *)
(***************************************************************************)
C5_NoLostUpdate ==
    (\A c \in Clients : tx[c].pc \in {"committed", "aborted"})
        => \A id \in AccountIds :
               accounts[id].balance =
                   SumOver([c \in Clients |->
                              IF tx[c].pc = "committed"
                              THEN TableBatchDelta(tx[c].ledgerEntries, id, StoredType)
                              ELSE 0],
                           Clients)

\* Two postings that both credit the same Liability account, by 1 and by 2,
\* have both committed.
C5_Witness ==
    \E id \in AccountIds :
        /\ accounts[id].accountType = "LIABILITY"
        /\ \A c \in {1, 2} :
             /\ tx[c].pc = "committed"
             /\ \E i \in Indices(tx[c].ledgerEntries) :
                  /\ tx[c].ledgerEntries[i].accountId = id
                  /\ tx[c].ledgerEntries[i].debitCredit = "CREDIT"
             /\ \E i \in Indices(tx[c].ledgerEntries) :
                  tx[c].ledgerEntries[i].accountId # id
        /\ accounts[id].balance = 3

(***************************************************************************)
(* C6: a batch of fewer than two entries (the empty batch and a request    *)
(* without ledgerEntries included) is rejected and changes nothing.        *)
(***************************************************************************)
C6_TooFewEntriesRejected ==
    [][(Posted /\ Len(req'.ledgerEntries) < 2)
         => (res'.status # 201 /\ LedgerUnchanged)]_vars

(***************************************************************************)
(* C7: a batch with an entry of amount <= 0 is rejected and changes        *)
(* nothing, so no committed entry has amount <= 0.                         *)
(***************************************************************************)
C7_NonPositiveAmountRejected ==
    /\ AfterPost /\ (\E i \in Indices(req.ledgerEntries) : req.ledgerEntries[i].amount <= 0)
         => res.status # 201
    /\ \A i \in Indices(entries) : entries[i].amount > 0

(***************************************************************************)
(* C8: the resolver is the normal-balance table.  For every accepted       *)
(* posting whose entries carry a declared account type, each balance moves *)
(* by +X for Debit on Asset and Credit on Liability, and by -X for Credit  *)
(* on Asset and Debit on Liability.                                        *)
(***************************************************************************)
C8_ResolverIsTable ==
    [][(Accepted /\ \A i \in Indices(req'.ledgerEntries) :
                        req'.ledgerEntries[i].accountType \in AccountType)
         => \A id \in AccountIds :
                accounts'[id].balance =
                    accounts[id].balance
                      + TableBatchDelta(req'.ledgerEntries, id, SuppliedType)]_vars

\* An accepted posting moved a balance down: a Debit on a Liability type.
C8_Witness ==
    /\ AfterPost
    /\ res.status = 201
    /\ Len(req.ledgerEntries) = 1
    /\ req.ledgerEntries[1].accountType = "LIABILITY"
    /\ req.ledgerEntries[1].debitCredit = "DEBIT"
    /\ req.ledgerEntries[1].amount > 0
    /\ accounts[req.ledgerEntries[1].accountId].balance = -req.ledgerEntries[1].amount

(***************************************************************************)
(* C9: an entry whose account type is outside the table makes the posting  *)
(* fail; it is never a no-op that creates the entry and leaves the balance *)
(* alone.                                                                  *)
(***************************************************************************)
C9_UnknownTypeRejected ==
    [][(Posted /\ \E i \in Indices(req'.ledgerEntries) :
                      req'.ledgerEntries[i].accountType \notin AccountType)
         => (res'.status # 201 /\ LedgerUnchanged)]_vars

(***************************************************************************)
(* C10: a batch with an entry on an account id that does not exist is      *)
(* rejected (the foreign key Entry.accountId fails); no entry of the batch *)
(* is created and no balance changes.                                      *)
(***************************************************************************)
C10_UnknownAccountRejected ==
    [][(Posted /\ ReferencesUnknown(req'.ledgerEntries))
         => (res'.status = 500 /\ res'.error = "P2003" /\ LedgerUnchanged)]_vars

\* A batch was rejected whose first entry is on an existing account and
\* whose second entry is on a missing one.
C10_Witness ==
    /\ AfterPost
    /\ res.status = 500
    /\ res.error = "P2003"
    /\ Len(req.ledgerEntries) = 2
    /\ accounts[req.ledgerEntries[1].accountId].present
    /\ ~accounts[req.ledgerEntries[2].accountId].present
    /\ entries = <<>>
    /\ \A id \in AccountIds : accounts[id].balance = 0

(***************************************************************************)
(* C15: the ledger is append-only.  Every step keeps each committed entry   *)
(* where it is, with the same id, transactionId, debitCredit, amount and    *)
(* accountId: the rows before the step are a prefix of the rows after it,   *)
(* and no two rows share an id.                                             *)
(***************************************************************************)
C15_AppendOnly ==
    [][/\ Len(entries') >= Len(entries)
       /\ \A i \in Indices(entries) : entries'[i] = entries[i]
       /\ \A i, j \in Indices(entries') :
             entries'[i].id = entries'[j].id => i = j]_vars

\* An accepted posting of one entry has left two rows: the first one was
\* committed by an earlier posting and is still there.
C15_Witness ==
    /\ AfterPost
    /\ res.status = 201
    /\ Len(req.ledgerEntries) = 1
    /\ Len(entries) = 2
    /\ entries[1].id = 1

(***************************************************************************)
(* C16: only PostTransaction changes balances or adds entries.  A step of   *)
(* any other operation (the reads, CreateAccount, a request answered 501)   *)
(* leaves the entries as they are and every existing account in place with  *)
(* the balance it had.                                                      *)
(***************************************************************************)
C16_OnlyPostingMutates ==
    [][req'.op # "PostTransaction" =>
         /\ entries' = entries
         /\ \A id \in AccountIds :
               accounts[id].present =>
                 /\ accounts'[id].present
                 /\ accounts'[id].balance = accounts[id].balance]_vars

\* CreateAccount has been served on a ledger that holds an entry and an
\* account with a balance other than 0.
C16_Witness ==
    /\ req.op = "CreateAccount"
    /\ Len(entries) > 0
    /\ \E id \in AccountIds : accounts[id].present /\ accounts[id].balance # 0

\* The account has no committed entry.
Unreferenced(rows, id) == \A i \in Indices(rows) : rows[i].accountId # id

(***************************************************************************)
(* C17: a new account has balance 0.  A CreateAccount step that succeeds    *)
(* adds one account, with balance 0, whatever balance the request body      *)
(* names; and after every step an account that no committed entry           *)
(* references has balance 0.                                                *)
(***************************************************************************)
C17_NewAccountHasZeroBalance ==
    [][/\ (req'.op = "CreateAccount" /\ res'.status = 200) =>
            \E id \in AccountIds :
                /\ ~accounts[id].present
                /\ accounts'[id].present
                /\ accounts'[id].balance = 0
       /\ \A id \in AccountIds :
            (accounts'[id].present /\ Unreferenced(entries', id)) =>
                accounts'[id].balance = 0]_vars

\* An account has been created from a body that names a balance, on a
\* ledger whose other account has entries and a balance other than 0.
C17_Witness ==
    /\ req.op = "CreateAccount"
    /\ req.balance = <<MaxAmount>>
    /\ res.status = 200
    /\ \E id \in AccountIds :
          accounts[id].present /\ Unreferenced(entries, id) /\ accounts[id].balance = 0
    /\ \E id \in AccountIds :
          accounts[id].present /\ ~Unreferenced(entries, id) /\ accounts[id].balance # 0

\* The entries of the batch that target the account.
Targeting(batch, id) == {i \in Indices(batch) : batch[i].accountId = id}

\* Every entry of the batch on the account names the type the account has.
NamesStoredType(batch, id) ==
    \A i \in Targeting(batch, id) : SuppliedType(batch[i]) = StoredType(batch[i])

(***************************************************************************)
(* C18: several entries of one accepted batch on the same account add up.   *)
(* The account's balance after the commit is its balance before plus the    *)
(* sum of the adjustments of those entries, each counted once; when the     *)
(* entries name the account's own type, that sum is the sum of the table's  *)
(* signed deltas (Debit 2 and Credit 1 on an Asset account net +1).         *)
(***************************************************************************)
C18_SameAccountEntriesSum ==
    [][Accepted =>
         \A id \in AccountIds :
            Cardinality(Targeting(req'.ledgerEntries, id)) >= 2 =>
              /\ accounts'[id].balance - accounts[id].balance =
                    BatchDelta(req'.ledgerEntries, id)
              /\ NamesStoredType(req'.ledgerEntries, id) =>
                    accounts'[id].balance - accounts[id].balance =
                      TableBatchDelta(req'.ledgerEntries, id, StoredType)]_vars

\* The first posting on Asset account 1 was accepted with Debit 2 and
\* Credit 1 on it: the balance is +1.
C18_Witness ==
    /\ AfterPost
    /\ res.status = 201
    /\ Len(entries) = 2
    /\ Targeting(req.ledgerEntries, 1) = {1, 2}
    /\ accounts[1].accountType = "ASSET"
    /\ NamesStoredType(req.ledgerEntries, 1)
    /\ req.ledgerEntries[1].debitCredit = "DEBIT"
    /\ req.ledgerEntries[1].amount = 2
    /\ req.ledgerEntries[2].debitCredit = "CREDIT"
    /\ req.ledgerEntries[2].amount = 1
    /\ accounts[1].balance = 1

\* The first check of the order TooFewEntries, NonPositiveAmount,
\* UnknownAccount, UnbalancedTransaction that the batch fails; "none" when it
\* passes them all.
FirstFailure(batch) ==
    IF Len(batch) < 2 THEN "TooFewEntries"
    ELSE IF \E i \in Indices(batch) : batch[i].amount <= 0 THEN "NonPositiveAmount"
    ELSE IF ReferencesUnknown(batch) THEN "UnknownAccount"
    ELSE IF DebitSum(batch) # CreditSum(batch) THEN "UnbalancedTransaction"
    ELSE "none"

\* The error of a response under the names of the four checks: the foreign
\* key violation is how an unknown account shows.
ErrorName(response) ==
    IF response.status = 201 THEN "none"
    ELSE IF response.error = "P2003" THEN "UnknownAccount"
    ELSE response.error

(***************************************************************************)
(* C14: validation order.  A posting whose batch fails one of the checks    *)
(* TooFewEntries, NonPositiveAmount, UnknownAccount, UnbalancedTransaction  *)
(* is answered with the error of the first check it fails, and nothing has  *)
(* been written to the store: entries, accounts and the Entry id sequence   *)
(* are as before.                                                           *)
(***************************************************************************)
C14_FirstFailureWins ==
    [][(Posted /\ FirstFailure(req'.ledgerEntries) # "none") =>
         /\ ErrorName(res') = FirstFailure(req'.ledgerEntries)
         /\ LedgerUnchanged
         /\ entrySeq' = entrySeq]_vars

\* The committed entries that carry the transactionId, in table order.
EntriesOfTransaction(transactionId) ==
    EntryFindMany(entries, [transactionId |-> transactionId])

(***************************************************************************)
(* C19: every committed transaction is a balanced double entry.  In every   *)
(* state, each transactionId found on a committed entry is carried by at    *)
(* least two committed entries, and the Debit amounts of those entries sum  *)
(* to the same total as their Credit amounts.                               *)
(***************************************************************************)
C19_TransactionsBalanced ==
    \A i \in Indices(entries) :
        LET group == EntriesOfTransaction(entries[i].transactionId)
        IN  /\ Len(group) >= 2
            /\ DebitSum(group) = CreditSum(group)

(***************************************************************************)
(* C20: one posting, one transactionId.  The rows that an accepted posting  *)
(* adds to Entry all carry the same transactionId.                          *)
(***************************************************************************)
C20_OneTransactionIdPerPosting ==
    [][Accepted =>
         \A i, j \in (Len(entries) + 1)..Len(entries') :
            entries'[i].transactionId = entries'[j].transactionId]_vars

\* The accounts that the posting of client c touches.
AccountsOf(c) ==
    {tx[c].ledgerEntries[i].accountId : i \in Indices(tx[c].ledgerEntries)}

\* The posting of client c shares no account with any other posting.
Disjoint(c) ==
    \A d \in Clients \ {c} : AccountsOf(c) \cap AccountsOf(d) = {}

\* Every posting has ended, with a commit or with an error.
AllEnded == \A c \in Clients : tx[c].pc \in {"committed", "aborted"}

\* The rows of client c's posting are in Entry before those of client d's.
CommittedBefore(c, d) ==
    \E i, j \in Indices(entries) :
        i < j /\ entries[i].transactionId = c /\ entries[j].transactionId = d

(***************************************************************************)
(* C12: disjoint postings all commit, in any order.  A posting that shares  *)
(* no account with another one never waits for a lock and never fails, so   *)
(* once the postings have ended it has committed; and in every state each   *)
(* account's balance is its initial balance (0) plus the signed deltas of   *)
(* the postings committed so far, whichever of them committed first.        *)
(***************************************************************************)
C12_DisjointPostingsCommit ==
    /\ \A c \in Clients :
          Disjoint(c) =>
            /\ ~Waiting(c)
            /\ tx[c].pc # "aborted"
            /\ AllEnded => tx[c].pc = "committed"
    /\ \A id \in AccountIds :
          accounts[id].balance =
              SumOver([c \in Clients |->
                         IF tx[c].pc = "committed"
                         THEN BatchDelta(tx[c].ledgerEntries, id)
                         ELSE 0],
                      Clients)

\* Two postings on different accounts, each moving its account's balance,
\* have both committed, the second client's first.
C12_Witness ==
    /\ \A c \in Clients : Disjoint(c) /\ tx[c].pc = "committed"
    /\ CommittedBefore(2, 1)
    /\ \A id \in AccountIds : accounts[id].balance # 0

\* Every posting ends, with a commit or with an error.
PostingsTerminate == \A c \in Clients : <>(tx[c].pc \in {"committed", "aborted"})

\* A posting that finds a row locked by another posting fails.
ContendedFails == \A c \in Clients : Waiting(c) ~> (tx[c].pc = "aborted")

(***************************************************************************)
(* C13: postings terminate, and fail fast under contention.  Under every    *)
(* interleaving each posting eventually ends with a commit or an error, and *)
(* a posting that meets a row held by another posting ends with an error    *)
(* instead of waiting for it.                                               *)
(***************************************************************************)
C13_TerminatesFailingFast == PostingsTerminate /\ ContendedFails

\* Net signed effect of the rows on an account of the type, by the table.
RowsDelta(rows, accountType) ==
    SumOver([i \in Indices(rows) |->
               TableDelta(accountType, rows[i].debitCredit, rows[i].amount)],
            Indices(rows))

\* A finished read returned none of the posting's entries or all of those
\* that its query selects.
ReadsWholeBatches ==
    /\ rd.pc = "entries" => Len(rd.entries) \in {0, Len(tx[1].ledgerEntries)}
    /\ rd.pc = "account" =>
          Len(rd.entries) \in {0, Cardinality(Targeting(tx[1].ledgerEntries, rd.id))}

\* The balance returned with an account is the net signed effect of the
\* entries returned with it.
BalanceAgreesWithEntries ==
    rd.pc = "account" =>
        rd.account.balance = RowsDelta(rd.entries, rd.account.accountType)

(***************************************************************************)
(* C11: no partial reads.  A read served while a posting is in flight       *)
(* returns all or none of the posting's entries, and the account returned   *)
(* by GET /api/account/:id has the balance that the entries returned with   *)
(* it add up to.                                                            *)
(***************************************************************************)
C11_NoPartialRead == ReadsWholeBatches /\ BalanceAgreesWithEntries

\* The sum of the balances of the accounts of the type.
TotalBalance(accountType) ==
    SumOver([id \in AccountIds |->
               IF accounts[id].present /\ accounts[id].accountType = accountType
               THEN accounts[id].balance ELSE 0],
            AccountIds)

(***************************************************************************)
(* C21: the ledger is balanced.  Starting from balances 0, in every state   *)
(* the balances of the Asset accounts sum to the same total as the          *)
(* balances of the Liability accounts.                                      *)
(***************************************************************************)
C21_LedgerBalanced == TotalBalance("ASSET") = TotalBalance("LIABILITY")

\* The batch names a transactionId that a committed entry carries.
RePost(batch) ==
    \E i \in Indices(batch), j \in Indices(entries) :
        batch[i].transactionId = entries[j].transactionId

\* The rows added by the step have ids that no earlier row has and that
\* differ from each other.
FreshIds ==
    \A i \in (Len(entries) + 1)..Len(entries') :
        \A j \in Indices(entries') : entries'[j].id = entries'[i].id => i = j

\* The posting was refused and left the ledger as it was.
RejectedWhole == res'.status # 201 /\ LedgerUnchanged

\* The posting was carried out in full as a posting of its own.
IndependentPosting ==
    /\ res'.status = 201
    /\ EntriesCreated(req'.ledgerEntries)
    /\ FreshIds
    /\ \A id \in AccountIds :
          accounts'[id].balance =
              accounts[id].balance + BatchDelta(req'.ledgerEntries, id)

(***************************************************************************)
(* C22: re-posting a transactionId.  A posting that names a transactionId   *)
(* already in the ledger is either refused with nothing changed or carried  *)
(* out as an independent posting (a full new set of entries with fresh ids, *)
(* every balance delta applied again), nothing in between; and the policy   *)
(* is the same each time: it is an independent posting, refused only for    *)
(* naming an account that does not exist, as a first posting would be.      *)
(***************************************************************************)
C22_RePostIsIndependent ==
    [][(Posted /\ RePost(req'.ledgerEntries)) =>
         IF ReferencesUnknown(req'.ledgerEntries)
         THEN RejectedWhole
         ELSE IndependentPosting]_vars

\* The same two entries were posted twice and accepted twice: rows 3 and 4
\* repeat rows 1 and 2 under new ids, and a balance has moved twice.
C22_Witness ==
    /\ AfterPost
    /\ res.status = 201
    /\ Len(entries) = 4
    /\ \A i \in 1..2 :
          /\ entries[i + 2].id # entries[i].id
          /\ entries[i + 2] = [entries[i] EXCEPT !.id = entries[i + 2].id]
          /\ entries[i].transactionId = entries[1].transactionId
    /\ \E id \in AccountIds :
          /\ BatchDelta(req.ledgerEntries, id) # 0
          /\ accounts[id].balance = 2 * BatchDelta(req.ledgerEntries, id)

====
